---- MODULE Spec2Model ----
(***************************************************************************)
(* Model of the comunicado PDF export of sistema_admin:                    *)
(*   - ExportSystem.exportComunicadoPDF   (src/js/templates.js)            *)
(*   - ExportSystem.exportComunicadosPDF / exportSolicitudesPDF            *)
(*   - App.exportComunicadoPDF, App.showComunicadoDetalle, the list and    *)
(*     modal click handlers, App.calcularPaginasComunicado                 *)
(*     (src/unnamed/part_000) and the Escape shortcut                      *)
(*     (src/js/keyboard-shortcuts.js),                                     *)
(*   - FormsManager.estimarPaginasComunicado, handleComunicadoSubmit       *)
(*     (src/unnamed/part_003) and App.formatComunicadoContent.             *)
(*                                                                         *)
(* Lengths are exact: millimetre values are integers because the canvas    *)
(* widths that are enumerated divide usableWidth * canvas height.  The     *)
(* rounding of IEEE doubles is not modelled.  A JavaScript number that can *)
(* be NaN or Infinity is a record [t |-> "fin" | "inf" | "nan", v |-> n].  *)
(***************************************************************************)
EXTENDS Integers, Sequences, FiniteSets, TLC

\* ------------------------------------------------------------------ bounds
MaxBodyHeight == 12
MaxPages == 8
MaxComunicados == 2
MaxCalls == 2
MaxBatch == 4
MaxTokens == 4
LongRun == 20000

\* ------------------------------------------------- page geometry constants
pageWidth == 210
pageHeight == 297
margin == 10
headerGap == 5
footerGap == 5
CanvasScale == 2

usableWidth == pageWidth - (margin * 2)
usableHeight == pageHeight - (margin * 2)

\* scrollWidth / scrollHeight values (CSS px) the renderer can report
Widths == {95, 190}
HeaderHeights == {100, 200, 205}
FooterHeights == {31, 57, 62, 65}
BodyHeights == 0..MaxBodyHeight

\* ids (and codes) of the comunicados in the database
Comunicados == 1..MaxComunicados
CallIds == 1..MaxCalls

\* ------------------------------------------------------ JavaScript numbers
Fin(n) == [t |-> "fin", v |-> n]
Infinity == [t |-> "inf", v |-> 0]
NaN == [t |-> "nan", v |-> 0]

\* pageNum <= x  for an integer pageNum and a JavaScript number x
JSLeq(n, x) ==
    CASE x.t = "fin" -> n <= x.v
      [] x.t = "inf" -> TRUE
      [] OTHER -> FALSE

\* pageNum === x
JSEq(n, x) == x.t = "fin" /\ n = x.v

\* Math.ceil(h / c) for h >= 0
CeilDiv(h, c) ==
    IF c > 0 THEN Fin((h + c - 1) \div c)
    ELSE IF c < 0 THEN Fin(0 - (h \div (0 - c)))
    ELSE IF h > 0 THEN Infinity
    ELSE NaN

\* Math.max(1, x)
Max1(x) == IF x.t = "fin" THEN Fin(IF x.v > 1 THEN x.v ELSE 1) ELSE x

Min(a, b) == IF a < b THEN a ELSE b

\* html2canvas with scale: 2 : canvas size of an element of the given CSS size
CanvasOf(w, h) == [width |-> CanvasScale * w, height |-> CanvasScale * h]

\* (canvas.height * usableWidth) / canvas.width
HeightMM(canvas) == (canvas.height * usableWidth) \div canvas.width

ContentHeightPerPageNoGaps(headerMM, footerMM) ==
    usableHeight - headerMM - footerMM

ContentHeightPerPage(headerMM, footerMM) ==
    usableHeight - (headerMM + headerGap) - (footerMM + footerGap)

TotalPagesFloorPlusOne(bodyMM, c) ==
    IF c > 0 THEN Fin((bodyMM \div c) + 1) ELSE Max1(CeilDiv(bodyMM, c))

TotalPages(bodyMM, c) == Max1(CeilDiv(bodyMM, c))

BlankPage == [header |-> <<>>, body |-> <<>>, footer |-> FALSE, bottom |-> 0]

\* ------------------------------------------------------------------- state
VARIABLES
    pc,                   \* position of the exportComunicadoPDF call
    documentoWidth,       \* documentoWrapper.offsetWidth
    headerHeightMM, bodyHeightMM, footerHeightMM,
    contentHeightPerPage, totalPages,
    pageNum, bodyYPosition,
    pdf,                  \* pages of the jsPDF document
    plan,                 \* <<contentStart, contentEnd>> of every iteration
    rasterCalls,          \* number of html2canvas calls made
    savedFiles,           \* files handed to pdf.save
    error,                \* the Error thrown to the caller, NoError when none
    comunicado,           \* the record passed to exportComunicadoPDF
    img,                  \* the header logo <img>: "loading", "loaded", "broken"
    imgWait,              \* the promise of lines 550-557: "idle"; "complete" when
                          \* img.complete resolved it at once; "pending" with
                          \* onload = onerror = resolve; "resolved" by an event
    placeholder,          \* the inline onerror ran: logo hidden, .logo-circle shown
    headerLogos,          \* how the logo came out in the page headers of the pdf
    containerWidth,       \* style.width of the off-screen container created last
    scaleWidths,          \* scrollWidth of every container that was rasterized
    attached,             \* off-screen containers attached to document.body
    loadingVisible,       \* #loadingPdf is shown
    surface,              \* record rendered in #comunicado-documento, 0 = empty
    modalDisplay,         \* style.display of #modal-ver-comunicado
    btnExportId,          \* id bound to the modal's export button, 0 = none
    calls,                \* the handlers in flight, one per call id
    closeTimers,          \* pending 1500 ms timers that hide the modal
    downloads,            \* files saved, with the record that was rasterized
    loadingPdf,           \* style.display of #loadingPdf
    batchPc,              \* position of the batch export
    batchKind,            \* "comunicados" or "solicitudes"
    batchItems,           \* the records of the batch, in order
    batchIndex,           \* loop index (0-based, as in the code)
    batchFiles,           \* codes of the files saved by the batch
    batchDelays,          \* number of 300 ms pacing delays started
    batchDocs,            \* pages of the documents saved by the batch
    batchNames,           \* file names passed to doc.save by the batch
    batchNotices,         \* notifications shown about the batch
    wrapper,              \* measures of .comunicado-documento-wrapper
    calcCall,             \* what the last calcularPaginasComunicado call did
    paginaActual,         \* total shown in #comunicado-pagina-actual ("1 de N")
    textarea,             \* value of #comunicado-contenido, a sequence of tokens
    formOpen,             \* #modal-comunicado is open
    paginasEstimadas,     \* style.display of #comunicado-paginas-estimadas
    numPaginas,           \* textContent of #comunicado-num-paginas
    tempDiv,              \* textContent of the <p> elements measured last
    created,              \* the record added to 'comunicados', <<>> when none
    documentoBody,        \* paragraphs of .comunicado-documento-body
    exportedPages         \* totalPages of the export of the created record

pagingVars == <<pc, documentoWidth, headerHeightMM, bodyHeightMM, footerHeightMM,
                contentHeightPerPage, totalPages, pageNum, bodyYPosition, pdf,
                plan, rasterCalls, savedFiles, error, comunicado,
                img, imgWait, placeholder, headerLogos, containerWidth,
                scaleWidths, attached, loadingVisible>>

surfaceVars == <<surface, modalDisplay, btnExportId, calls, closeTimers, downloads,
                 loadingPdf>>

batchVars == <<batchPc, batchKind, batchItems, batchIndex, batchFiles,
               batchDelays, batchDocs, batchNames, batchNotices>>

calcVars == <<wrapper, calcCall, paginaActual>>

estimarVars == <<textarea, formOpen, paginasEstimadas, numPaginas, tempDiv, created,
                 documentoBody, exportedPages>>

vars == <<pagingVars, surfaceVars, batchVars, calcVars, estimarVars>>

FileNameIgnoresCode(codigo) == <<"Comunicado", 0, "pdf">>

\* `Comunicado-${codigo}.pdf`; the 'sin-codigo' default of line 733 is for a
\* record without a code, which handleComunicadoSubmit never stores
FileName(codigo) == <<"Comunicado", codigo, "pdf">>

\* no Error has been thrown
NoError == [message |-> <<>>]

\* new Error('Error al generar el PDF: ' + error.message)
ExportError(cause) == [message |-> <<"Error al generar el PDF: ", cause>>]

\* wrapper.offsetWidth || wrapper.scrollWidth || 800
DefaultWidth == 800

\* container.scrollWidth: the style width, or the width of the overflowing
\* content when the container is 0 px wide (an empty body in a 0 px container,
\* whose canvas is 0 x 0, is not modelled)
ScrollWidths(cw) == IF cw > 0 THEN {cw} ELSE Widths

NoCall == [kind |-> "none", via |-> "", id |-> 0, pc |-> "idle", wasModalOpen |-> FALSE,
           ret |-> "", content |-> 0, wrapperShown |-> FALSE]

SurfaceIdle ==
    /\ surface = 0
    /\ modalDisplay = "none"
    /\ btnExportId = 0
    /\ calls = [c \in CallIds |-> NoCall]
    /\ closeTimers = 0
    /\ downloads = <<>>
    /\ loadingPdf = "none"

BatchIdle ==
    /\ batchPc = "idle"
    /\ batchKind = ""
    /\ batchItems = <<>>
    /\ batchIndex = 0
    /\ batchFiles = <<>>
    /\ batchDelays = 0
    /\ batchDocs = <<>>
    /\ batchNames = <<>>
    /\ batchNotices = <<>>

\* a JavaScript undefined
Undefined == [t |-> "undef", v |-> 0]

NoCalc == [measured |-> <<0, 0>>, width |-> 0, height |-> 0, pages |-> Undefined]

\* the comunicado form is closed and nothing was typed
EstimarIdle ==
    /\ textarea = <<>>
    /\ formOpen = FALSE
    /\ paginasEstimadas = "none"
    /\ numPaginas = Undefined
    /\ tempDiv = <<>>
    /\ created = <<>>
    /\ documentoBody = <<>>
    /\ exportedPages = Undefined

\* the wrapper is hidden and the header shows the rendered "1 de 1"
CalcIdle ==
    /\ wrapper = [offsetWidth |-> 0, scrollWidth |-> 0, scrollHeight |-> 0]
    /\ calcCall = NoCalc
    /\ paginaActual = Fin(1)

PagingIdle ==
    /\ pc = "idle"
    /\ documentoWidth = 0
    /\ comunicado = 0
    /\ headerHeightMM = 0 /\ bodyHeightMM = 0 /\ footerHeightMM = 0
    /\ contentHeightPerPage = 0
    /\ totalPages = Fin(0)
    /\ pageNum = 0 /\ bodyYPosition = 0
    /\ pdf = <<>> /\ plan = <<>>
    /\ rasterCalls = 0
    /\ savedFiles = <<>>
    /\ error = NoError
    /\ img = "loaded" /\ imgWait = "idle" /\ placeholder = FALSE
    /\ headerLogos = {}
    /\ containerWidth = 0
    /\ scaleWidths = {}
    /\ attached = 0
    /\ loadingVisible = FALSE


Init ==
    /\ SurfaceIdle
    /\ BatchIdle
    /\ CalcIdle
    /\ EstimarIdle
    /\ pc = "begin"
    /\ documentoWidth \in Widths
    /\ comunicado \in Comunicados
    /\ headerHeightMM = 0 /\ bodyHeightMM = 0 /\ footerHeightMM = 0
    /\ contentHeightPerPage = 0
    /\ totalPages = Fin(0)
    /\ pageNum = 0 /\ bodyYPosition = 0
    /\ pdf = <<>> /\ plan = <<>>
    /\ rasterCalls = 0
    /\ savedFiles = <<>>
    /\ error = NoError
    /\ img \in {"loading", "loaded", "broken"}
    /\ imgWait = "idle"
    /\ placeholder = (img = "broken")
    /\ headerLogos = {}
    /\ containerWidth = 0
    /\ scaleWidths = {}
    /\ attached = 0
    /\ loadingVisible = FALSE


\* the logo as html2canvas sees it in the header clone of a page: the image when it
\* loaded; the placeholder when the inline onerror had hidden the broken
\* image; when the image broke with onerror replaced by resolve the clone
\* carries a visible broken <img> whose own error event races the snapshot
LogoRenderings ==
    IF img = "loaded" THEN {"image"}
    ELSE IF placeholder THEN {"placeholder"}
    ELSE {"placeholder", "none"}

\* lines 540-559: loading indicator shown; every image that is not complete
\* gets onload = onerror = resolve, and Promise.all is awaited
AwaitImages ==
    /\ pc = "begin"
    /\ loadingVisible' = TRUE
    /\ imgWait' = IF img = "loading" THEN "pending" ELSE "complete"
    /\ pc' = "images"
    /\ UNCHANGED <<documentoWidth, headerHeightMM, bodyHeightMM, footerHeightMM,
                   contentHeightPerPage, totalPages, pageNum, bodyYPosition,
                   pdf, plan, rasterCalls, savedFiles, error, comunicado,
                   img, placeholder, headerLogos, containerWidth, scaleWidths,
                   attached, surfaceVars, batchVars, calcVars, estimarVars>>

\* lines 559-588: the image promises resolved, jsPDF created, header
\* container attached, html2canvas(headerContainer)
LoadImages ==
    /\ pc = "images"
    /\ imgWait \in {"complete", "resolved"}
    /\ pdf' = <<BlankPage>>
    /\ containerWidth' = documentoWidth
    /\ attached' = attached + 1
    /\ rasterCalls' = rasterCalls + 1
    /\ pc' = "header"
    /\ UNCHANGED <<documentoWidth, headerHeightMM, bodyHeightMM, footerHeightMM,
                   contentHeightPerPage, totalPages, pageNum, bodyYPosition,
                   plan, savedFiles, error, comunicado, img, imgWait, placeholder,
                   headerLogos, scaleWidths, loadingVisible, surfaceVars, batchVars, calcVars, estimarVars>>

\* lines 589-611: header measured and detached, body container attached,
\* html2canvas(bodyContainer)
CaptureHeader ==
    /\ pc = "header"
    /\ \E h \in HeaderHeights, w \in ScrollWidths(containerWidth) :
          /\ headerHeightMM' = HeightMM(CanvasOf(w, h))
          /\ scaleWidths' = scaleWidths \cup {w}
    /\ containerWidth' = documentoWidth
    /\ rasterCalls' = rasterCalls + 1
    /\ pc' = "body"
    /\ UNCHANGED <<documentoWidth, bodyHeightMM, footerHeightMM,
                   contentHeightPerPage, totalPages, pageNum, bodyYPosition,
                   pdf, plan, savedFiles, error, comunicado, img, imgWait,
                   placeholder, headerLogos, attached, loadingVisible,
                   surfaceVars, batchVars, calcVars, estimarVars>>

\* lines 612-637: body measured and detached, footer container attached,
\* html2canvas(footerContainer)
CaptureBody ==
    /\ pc = "body"
    /\ \E h \in BodyHeights, w \in ScrollWidths(containerWidth) :
          /\ bodyHeightMM' = HeightMM(CanvasOf(w, h))
          /\ scaleWidths' = scaleWidths \cup {w}
    /\ containerWidth' = documentoWidth
    /\ rasterCalls' = rasterCalls + 1
    /\ pc' = "footer"
    /\ UNCHANGED <<documentoWidth, headerHeightMM, footerHeightMM,
                   contentHeightPerPage, totalPages, pageNum, bodyYPosition,
                   pdf, plan, savedFiles, error, comunicado, img, imgWait,
                   placeholder, headerLogos, attached, loadingVisible,
                   surfaceVars, batchVars, calcVars, estimarVars>>

\* lines 638-652: footer measured and detached, page geometry and totalPages
\* computed
CaptureFooter ==
    /\ pc = "footer"
    /\ \E h \in FooterHeights, w \in ScrollWidths(containerWidth) :
          LET f == HeightMM(CanvasOf(w, h))
              c == ContentHeightPerPage(headerHeightMM, f)
          IN  /\ footerHeightMM' = f
              /\ contentHeightPerPage' = c
              /\ totalPages' = TotalPages(bodyHeightMM, c)
              /\ scaleWidths' = scaleWidths \cup {w}
    /\ attached' = attached - 1
    /\ bodyYPosition' = 0
    /\ pageNum' = 1
    /\ pc' = "loop"
    /\ UNCHANGED <<documentoWidth, headerHeightMM, bodyHeightMM, pdf, plan,
                   rasterCalls, savedFiles, error, comunicado, img, imgWait,
                   placeholder, headerLogos, containerWidth, loadingVisible,
                   surfaceVars, batchVars, calcVars, estimarVars>>

\* lines 653-692: loop test, pdf.addPage, header container of the page
\* attached, html2canvas(headerContainerUpdated)
StartPage ==
    /\ pc = "loop"
    /\ JSLeq(pageNum, totalPages)
    /\ pageNum <= MaxPages
    /\ pdf' = IF pageNum > 1 THEN Append(pdf, BlankPage) ELSE pdf
    /\ containerWidth' = documentoWidth
    /\ attached' = attached + 1
    /\ rasterCalls' = rasterCalls + 1
    /\ pc' = "page"
    /\ UNCHANGED <<documentoWidth, headerHeightMM, bodyHeightMM, footerHeightMM,
                   contentHeightPerPage, totalPages, pageNum, bodyYPosition,
                   plan, savedFiles, error, comunicado, img, imgWait, placeholder,
                   headerLogos, scaleWidths, loadingVisible, surfaceVars, batchVars, calcVars, estimarVars>>

\* yPos of lines 658-729 below the last image of the page: margin, header
\* and 5 mm, the body slice when it is drawn, and 5 mm and the footer on the
\* last page
StackBottom(headerMM, slice, footerMM, last) ==
    margin + (headerMM + headerGap) + (IF slice > 0 THEN slice ELSE 0)
           + (IF last THEN footerGap + footerMM ELSE 0)

\* the page composed by lines 693-729, the slice it shows and where its
\* stack ends
ComposedPage(n, total, start, c, bodyMM, headerMM, footerMM) ==
    LET contentEnd == Min(start + c, bodyMM)
    IN  [header |-> <<n, total>>,
         body |-> IF contentEnd - start > 0 THEN <<start, contentEnd>> ELSE <<>>,
         footer |-> JSEq(n, total),
         bottom |-> StackBottom(headerMM, contentEnd - start, footerMM,
                                JSEq(n, total))]

\* lines 693-730: header image drawn usableWidth x headerHeightMM and its
\* container detached, body slice, footer on the last page, pageNum++
ComposePage ==
    /\ pc = "page"
    /\ LET contentStart == bodyYPosition
           contentEnd == Min(bodyYPosition + contentHeightPerPage, bodyHeightMM)
       IN  /\ pdf' = [pdf EXCEPT ![Len(pdf)] =
                        ComposedPage(pageNum, totalPages, bodyYPosition,
                                     contentHeightPerPage, bodyHeightMM,
                                     headerHeightMM, footerHeightMM)]
           /\ plan' = Append(plan, <<contentStart, contentEnd>>)
           /\ bodyYPosition' = contentEnd
    /\ \E w \in ScrollWidths(containerWidth) : scaleWidths' = scaleWidths \cup {w}
    /\ \E logo \in LogoRenderings : headerLogos' = headerLogos \cup {logo}
    /\ attached' = attached - 1
    /\ pageNum' = pageNum + 1
    /\ pc' = "loop"
    /\ UNCHANGED <<documentoWidth, headerHeightMM, bodyHeightMM, footerHeightMM,
                   contentHeightPerPage, totalPages, rasterCalls, savedFiles,
                   error, comunicado, img, imgWait, placeholder, containerWidth,
                   loadingVisible, surfaceVars, batchVars, calcVars, estimarVars>>

SaveBeforeLoopEnds ==
    /\ pc = "loop"
    /\ savedFiles' = Append(savedFiles, [name |-> FileName(comunicado), pages |-> pdf])
    /\ loadingVisible' = FALSE
    /\ pc' = "done"
    /\ UNCHANGED <<documentoWidth, headerHeightMM, bodyHeightMM, footerHeightMM,
                   contentHeightPerPage, totalPages, pageNum, bodyYPosition,
                   pdf, plan, rasterCalls, error, comunicado, img, imgWait,
                   placeholder, headerLogos, containerWidth, scaleWidths,
                   attached, surfaceVars, batchVars, calcVars, estimarVars>>

\* lines 732-737 followed by the finally block (lines 742-747)
Save ==
    /\ pc = "loop"
    /\ ~JSLeq(pageNum, totalPages)
    /\ savedFiles' = Append(savedFiles, [name |-> FileName(comunicado), pages |-> pdf])
    /\ loadingVisible' = FALSE
    /\ pc' = "done"
    /\ UNCHANGED <<documentoWidth, headerHeightMM, bodyHeightMM, footerHeightMM,
                   contentHeightPerPage, totalPages, pageNum, bodyYPosition,
                   pdf, plan, rasterCalls, error, comunicado, img, imgWait,
                   placeholder, headerLogos, containerWidth, scaleWidths,
                   attached, surfaceVars, batchVars, calcVars, estimarVars>>

\* lines 739-747: a pending html2canvas promise rejects; the removeChild that
\* follows the await is skipped, catch rethrows, finally hides the indicator
RasterFail ==
    /\ pc \in {"header", "body", "footer", "page"}
    /\ error' = ExportError("html2canvas")
    /\ loadingVisible' = FALSE
    /\ pc' = "failed"
    /\ UNCHANGED <<documentoWidth, headerHeightMM, bodyHeightMM, footerHeightMM,
                   contentHeightPerPage, totalPages, pageNum, bodyYPosition,
                   pdf, plan, rasterCalls, savedFiles, comunicado, img, imgWait,
                   placeholder, headerLogos, containerWidth, scaleWidths,
                   attached, surfaceVars, batchVars, calcVars, estimarVars>>

\* the exportComunicadoPDF call has not returned
Exporting == pc \notin {"idle", "done", "failed"}

\* load event of the logo; resolves the promise when onload is resolve
ImgLoads ==
    /\ Exporting
    /\ img = "loading"
    /\ img' = "loaded"
    /\ imgWait' = IF imgWait = "pending" THEN "resolved" ELSE imgWait
    /\ UNCHANGED <<pc, documentoWidth, headerHeightMM, bodyHeightMM, footerHeightMM,
                   contentHeightPerPage, totalPages, pageNum, bodyYPosition,
                   pdf, plan, rasterCalls, savedFiles, error, comunicado,
                   placeholder, headerLogos, containerWidth, scaleWidths,
                   attached, loadingVisible, surfaceVars, batchVars, calcVars, estimarVars>>

\* error event of the logo: the inline onerror (part_000 lines 631-637) swaps
\* in the placeholder unless line 555 replaced it by resolve
ImgFails ==
    /\ Exporting
    /\ img = "loading"
    /\ img' = "broken"
    /\ placeholder' = (imgWait # "pending")
    /\ imgWait' = IF imgWait = "pending" THEN "resolved" ELSE imgWait
    /\ UNCHANGED <<pc, documentoWidth, headerHeightMM, bodyHeightMM, footerHeightMM,
                   contentHeightPerPage, totalPages, pageNum, bodyYPosition,
                   pdf, plan, rasterCalls, savedFiles, error, comunicado,
                   headerLogos, containerWidth, scaleWidths, attached,
                   loadingVisible, surfaceVars, batchVars, calcVars, estimarVars>>

\* window resize while the export is suspended: the wrapper (max-width 800px,
\* width 100%) follows the window
Resize(w) ==
    /\ Exporting
    /\ documentoWidth # 0
    /\ w # documentoWidth
    /\ documentoWidth' = w
    /\ UNCHANGED <<pc, headerHeightMM, bodyHeightMM, footerHeightMM,
                   contentHeightPerPage, totalPages, pageNum, bodyYPosition,
                   pdf, plan, rasterCalls, savedFiles, error, comunicado,
                   img, imgWait, placeholder, headerLogos, containerWidth,
                   scaleWidths, attached, loadingVisible, surfaceVars, batchVars, calcVars, estimarVars>>

\* Escape (keyboard-shortcuts.js) or the 1500 ms close timer of an earlier
\* export hides the modal while the export is suspended: offsetWidth is 0
HideWrapper ==
    /\ Exporting
    /\ documentoWidth # 0
    /\ documentoWidth' = 0
    /\ UNCHANGED <<pc, headerHeightMM, bodyHeightMM, footerHeightMM,
                   contentHeightPerPage, totalPages, pageNum, bodyYPosition,
                   pdf, plan, rasterCalls, savedFiles, error, comunicado,
                   img, imgWait, placeholder, headerLogos, containerWidth,
                   scaleWidths, attached, loadingVisible, surfaceVars, batchVars, calcVars, estimarVars>>

\* the steps of the export call
ExportStep ==
    \/ AwaitImages
    \/ LoadImages
    \/ CaptureHeader
    \/ CaptureBody
    \/ CaptureFooter
    \/ StartPage
    \/ ComposePage
    \/ Save
    \/ RasterFail

Next ==
    \/ AwaitImages
    \/ LoadImages
    \/ CaptureHeader
    \/ CaptureBody
    \/ CaptureFooter
    \/ StartPage
    \/ ComposePage
    \/ Save
    \/ RasterFail
    \/ ImgLoads
    \/ ImgFails
    \/ \E w \in Widths : Resize(w)
    \/ HideWrapper

Spec == Init /\ [][Next]_vars

\* the event loop runs every continuation of the export that is ready; the
\* load and error events of an image, resize and Escape are the environment's
SpecFair == Spec /\ WF_vars(ExportStep)

\* ------------------------------------------ the shared rendering surface
\* App.exportComunicadoPDF, App.showComunicadoDetalle and the handlers that
\* start them.  The rasterization and page loop of one call are the single
\* steps SavePdf / ExportFails here; their detail is the specification Spec.

FreeCall(c) ==
    /\ calls[c].kind = "none"
    /\ \A d \in CallIds : d < c => calls[d].kind # "none"

\* .export-pdf-btn click: window.app.exportComunicadoPDF(id), up to db.get
ClickExportPdf(c, id) ==
    /\ FreeCall(c)
    /\ calls' = [calls EXCEPT ![c] =
                   [NoCall EXCEPT !.kind = "export", !.via = "list", !.id = id,
                                  !.pc = "dbget"]]
    /\ UNCHANGED <<surface, modalDisplay, btnExportId, closeTimers, downloads, loadingPdf>>
    /\ UNCHANGED <<pagingVars, batchVars, calcVars, estimarVars>>

\* btnExport.onclick set by showComunicadoDetalle: this.exportComunicadoPDF(id)
ClickExportDetalle(c) ==
    /\ FreeCall(c)
    /\ btnExportId # 0
    /\ calls' = [calls EXCEPT ![c] =
                   [NoCall EXCEPT !.kind = "export", !.via = "detalle",
                                  !.id = btnExportId,
                                  !.pc = "dbget"]]
    /\ UNCHANGED <<surface, modalDisplay, btnExportId, closeTimers, downloads, loadingPdf>>
    /\ UNCHANGED <<pagingVars, batchVars, calcVars, estimarVars>>

\* .comunicado-card click: showComunicadoDetalle(id), up to its db reads
ClickCard(c, id) ==
    /\ FreeCall(c)
    /\ calls' = [calls EXCEPT ![c] =
                   [NoCall EXCEPT !.kind = "view", !.via = "card", !.id = id,
                                  !.pc = "show",
                                  !.ret = "done"]]
    /\ UNCHANGED <<surface, modalDisplay, btnExportId, closeTimers, downloads, loadingPdf>>
    /\ UNCHANGED <<pagingVars, batchVars, calcVars, estimarVars>>

\* ExportSystem.exportComunicadoPDF lines 502-526, entered with call record r:
\* the surface is rendered only when it is empty; the modal is shown
EnterExportSystem(c, r) ==
    IF surface = 0
    THEN /\ calls' = [calls EXCEPT ![c] = [r EXCEPT !.pc = "show", !.ret = "wait800"]]
         /\ UNCHANGED modalDisplay
    ELSE /\ calls' = [calls EXCEPT ![c] = [r EXCEPT !.pc = "wait300"]]
         /\ modalDisplay' = "flex"

\* App.exportComunicadoPDF after db.get: wasModalOpen decides whether the
\* surface is rendered again
DbGetResolves(c) ==
    /\ calls[c].pc = "dbget"
    /\ LET open == modalDisplay = "flex" /\ surface # 0
           r == [calls[c] EXCEPT !.wasModalOpen = open]
       IN  IF ~open
           THEN /\ calls' = [calls EXCEPT ![c] =
                              [r EXCEPT !.pc = "show", !.ret = "wait500"]]
                /\ UNCHANGED modalDisplay
           ELSE EnterExportSystem(c, r)
    /\ UNCHANGED <<surface, btnExportId, closeTimers, downloads, loadingPdf>>
    /\ UNCHANGED <<pagingVars, batchVars, calcVars, estimarVars>>

\* showComunicadoDetalle after its db reads: innerHTML replaced, modal opened,
\* export button bound to the record
Render(c) ==
    /\ calls[c].pc = "show"
    /\ surface' = calls[c].id
    /\ modalDisplay' = "flex"
    /\ btnExportId' = calls[c].id
    /\ calls' = [calls EXCEPT ![c].pc = calls[c].ret]
    /\ UNCHANGED <<closeTimers, downloads, loadingPdf>>
    /\ UNCHANGED <<pagingVars, batchVars, calcVars, estimarVars>>

\* the 500 ms wait of App.exportComunicadoPDF or the 800 ms wait of
\* ExportSystem.exportComunicadoPDF is over
TimerExpires(c) ==
    /\ calls[c].pc \in {"wait500", "wait800"}
    /\ IF calls[c].pc = "wait500"
       THEN EnterExportSystem(c, calls[c])
       ELSE IF surface = 0
            THEN /\ calls' = [calls EXCEPT ![c].pc = "error"]
                 /\ UNCHANGED modalDisplay
            ELSE /\ calls' = [calls EXCEPT ![c].pc = "wait300"]
                 /\ modalDisplay' = "flex"
    /\ UNCHANGED <<surface, btnExportId, closeTimers, downloads, loadingPdf>>
    /\ UNCHANGED <<pagingVars, batchVars, calcVars, estimarVars>>

\* lines 528-572 after the 300 ms wait: the wrapper and its regions are taken
\* from the surface as it is now, #loadingPdf is shown, the images are
\* complete and the first container is made as wide as the wrapper, which is
\* 0 px wide while the modal is hidden
CaptureSurface(c) ==
    /\ calls[c].pc = "wait300"
    /\ calls' = [calls EXCEPT ![c].pc = "raster", ![c].content = surface,
                              ![c].wrapperShown = (modalDisplay = "flex")]
    /\ loadingPdf' = "flex"
    /\ UNCHANGED <<surface, modalDisplay, btnExportId, closeTimers, downloads>>
    /\ UNCHANGED <<pagingVars, batchVars, calcVars, estimarVars>>

\* lines 573-758 and App lines 2091-2098: the regions are rasterized, the file
\* is saved, the finally block hides #loadingPdf, the modal is scheduled to
\* close when this call opened it
SavePdf(c) ==
    /\ calls[c].pc = "raster"
    /\ downloads' = Append(downloads, [name |-> FileName(calls[c].id),
                                       content |-> calls[c].content,
                                       wrapperShown |-> calls[c].wrapperShown])
    /\ loadingPdf' = "none"
    /\ closeTimers' = IF calls[c].wasModalOpen THEN closeTimers
                                               ELSE closeTimers + 1
    /\ calls' = [calls EXCEPT ![c].pc = "done"]
    /\ UNCHANGED <<surface, modalDisplay, btnExportId>>
    /\ UNCHANGED <<pagingVars, batchVars, calcVars, estimarVars>>

\* lines 739-758 and App lines 2099-2102: rasterization rejects
ExportFails(c) ==
    /\ calls[c].pc = "raster"
    /\ calls' = [calls EXCEPT ![c].pc = "error"]
    /\ loadingPdf' = "none"
    /\ UNCHANGED <<surface, modalDisplay, btnExportId, closeTimers, downloads>>
    /\ UNCHANGED <<pagingVars, batchVars, calcVars, estimarVars>>

\* Escape shortcut: every modal shown with display flex is hidden
PressEscape ==
    /\ modalDisplay = "flex"
    /\ modalDisplay' = "none"
    /\ UNCHANGED <<surface, btnExportId, calls, closeTimers, downloads, loadingPdf>>
    /\ UNCHANGED <<pagingVars, batchVars, calcVars, estimarVars>>

\* setTimeout(() => modal.style.display = 'none', 1500)
CloseTimerFires ==
    /\ closeTimers > 0
    /\ closeTimers' = closeTimers - 1
    /\ modalDisplay' = "none"
    /\ UNCHANGED <<surface, btnExportId, calls, downloads, loadingPdf>>
    /\ UNCHANGED <<pagingVars, batchVars, calcVars, estimarVars>>

InitSurface == PagingIdle /\ SurfaceIdle /\ BatchIdle /\ CalcIdle /\ EstimarIdle

NextSurface ==
    \/ \E c \in CallIds, id \in Comunicados : ClickExportPdf(c, id)
    \/ \E c \in CallIds : ClickExportDetalle(c)
    \/ \E c \in CallIds, id \in Comunicados : ClickCard(c, id)
    \/ \E c \in CallIds : DbGetResolves(c)
    \/ \E c \in CallIds : Render(c)
    \/ \E c \in CallIds : TimerExpires(c)
    \/ \E c \in CallIds : CaptureSurface(c)
    \/ \E c \in CallIds : SavePdf(c)
    \/ \E c \in CallIds : ExportFails(c)
    \/ PressEscape
    \/ CloseTimerFires

SpecSurface == InitSurface /\ [][NextSurface]_vars

\* no call of App.exportComunicadoPDF is in flight
NoCallInFlight == \A c \in CallIds : calls[c].pc \in {"idle", "done", "error"}

\* the user only exports, one export after the other has returned: neither
\* another record is opened nor Escape is pressed
NextRepeat ==
    \/ \E c \in CallIds, id \in Comunicados : NoCallInFlight /\ ClickExportPdf(c, id)
    \/ \E c \in CallIds : NoCallInFlight /\ ClickExportDetalle(c)
    \/ \E c \in CallIds : DbGetResolves(c)
    \/ \E c \in CallIds : Render(c)
    \/ \E c \in CallIds : TimerExpires(c)
    \/ \E c \in CallIds : CaptureSurface(c)
    \/ \E c \in CallIds : SavePdf(c)
    \/ \E c \in CallIds : ExportFails(c)
    \/ CloseTimerFires

SpecRepeat == InitSurface /\ [][NextRepeat]_vars

\* ------------------------------------------------------------ batch export
\* ExportSystem.exportComunicadosPDF / exportSolicitudesPDF, called without a
\* try/catch by App.exportComunicadosPDF / App.exportSolicitudesPDF.  An item
\* is [codigo |-> c, ok |-> b]; ok = FALSE is a record whose document cannot
\* be built (a field the code dereferences is missing, or doc.save throws).

BatchKinds == {"comunicados", "solicitudes"}

\* the records of a batch are distinct rows of the store, in store order
BatchLists ==
    UNION {{[i \in 1..n |-> [codigo |-> i, ok |-> f[i]]] : f \in [1..n -> BOOLEAN]} :
             n \in 1..MaxBatch}

\* margin and line pitch of the text layout of exportComunicadosPDF
batchMargin == 20
batchLineHeight == 6

\* lengths of doc.splitTextToSize(titulo) and doc.splitTextToSize(contenido)
BatchTitleLines == {1, 2}
BatchContentLines == {1, 30}

\* yPos when the content loop starts: 60, + 25, title lines * 7 + 10, + 10
BatchContentTop(titleLines) == 60 + 25 + ((titleLines * 7) + 10) + 10

\* contentLines.forEach of lines 857-864: number of lines printed on each page
RECURSIVE BatchLinesPerPage(_, _, _)
BatchLinesPerPage(n, yPos, onPage) ==
    IF n = 0 THEN <<onPage>>
    ELSE IF yPos > pageHeight - 30
         THEN <<onPage>> \o BatchLinesPerPage(n - 1, batchMargin + batchLineHeight, 1)
         ELSE BatchLinesPerPage(n - 1, yPos + batchLineHeight, onPage + 1)

\* the document built by lines 801-870: the colour band with the two titles
\* is drawn once, before any page is added; no page counter is printed; the
\* "Generado el ..." line is written on the page that is current at the end
BatchDocument(titleLines, contentLines) ==
    LET perPage == BatchLinesPerPage(contentLines, BatchContentTop(titleLines), 0)
    IN  [p \in 1..Len(perPage) |->
            [header |-> (p = 1),
             counter |-> <<>>,
             body |-> perPage[p],
             footer |-> (p = Len(perPage))]]

\* exportSolicitudPDF builds its own document; its layout is not modelled
SolicitudDocument == <<>>

\* doc.save(`Comunicado-${comunicado.codigo}.pdf`) of the batch loop
BatchFileName(codigo) == <<"Comunicado", codigo, "pdf">>

\* getSolicitudTipoLabel(solicitud.tipo).replace(/\s+/g, '-')
SolicitudTipoLabels == {"Vacaciones", "Permiso"}

\* `Solicitud-${solicitud.id}-${label}.pdf`
SolicitudFileName(id, label) == <<"Solicitud", id, label, "pdf">>

StartBatchSkipsFirst(kind, items) ==
    /\ batchPc = "idle"
    /\ batchKind' = kind
    /\ batchItems' = items
    /\ batchIndex' = IF Len(items) > 1 THEN 1 ELSE 0
    /\ batchPc' = "item"
    /\ UNCHANGED <<batchFiles, batchDelays, batchDocs, batchNames, batchNotices>>
    /\ UNCHANGED <<pagingVars, surfaceVars, calcVars, estimarVars>>

\* App.exportComunicadosPDF / exportSolicitudesPDF up to the loop entry
StartBatch(kind, items) ==
    /\ batchPc = "idle"
    /\ batchKind' = kind
    /\ batchItems' = items
    /\ batchIndex' = 0
    /\ batchPc' = "item"
    /\ UNCHANGED <<batchFiles, batchDelays, batchDocs, batchNames, batchNotices>>
    /\ UNCHANGED <<pagingVars, surfaceVars, calcVars, estimarVars>>

AfterSaveDelaysAfterLast ==
    IF batchIndex < Len(batchItems) - 1
    THEN /\ batchPc' = "delay"
         /\ batchDelays' = batchDelays + 1
         /\ UNCHANGED <<batchIndex, batchNotices>>
    ELSE /\ batchPc' = "done"
         /\ batchIndex' = batchIndex + 1
         /\ batchNotices' = Append(batchNotices, <<"success", Len(batchItems)>>)
         /\ batchDelays' = batchDelays + 1

\* the loop step after doc.save of the item at batchIndex (lines 872-878 and
\* 1099-1103): the pacing delay is started unless this was the last item
AfterSave ==
    IF batchIndex < Len(batchItems) - 1
    THEN /\ batchPc' = "delay"
         /\ batchDelays' = batchDelays + 1
         /\ UNCHANGED <<batchIndex, batchNotices>>
    ELSE /\ batchPc' = "done"
         /\ batchIndex' = batchIndex + 1
         /\ batchNotices' = Append(batchNotices, <<"success", Len(batchItems)>>)
         /\ UNCHANGED batchDelays

\* one loop iteration: the document of batchItems[index] is built and saved;
\* an exception leaves the loop and both async functions
ProcessItem ==
    /\ batchPc = "item"
    /\ LET item == batchItems[batchIndex + 1]
       IN  IF ~item.ok
           THEN /\ batchPc' = "failed"
                /\ UNCHANGED <<batchFiles, batchDelays, batchDocs, batchNames,
                               batchNotices, batchIndex>>
           ELSE /\ batchFiles' = Append(batchFiles, item.codigo)
                /\ \E t \in BatchTitleLines, n \in BatchContentLines :
                      batchDocs' = Append(batchDocs,
                                          IF batchKind = "comunicados"
                                          THEN BatchDocument(t, n)
                                          ELSE SolicitudDocument)
                /\ \E label \in SolicitudTipoLabels :
                      batchNames' = Append(batchNames,
                                           IF batchKind = "comunicados"
                                           THEN BatchFileName(item.codigo)
                                           ELSE SolicitudFileName(item.codigo, label))
                /\ AfterSave
    /\ UNCHANGED <<batchKind, batchItems>>
    /\ UNCHANGED <<pagingVars, surfaceVars, calcVars, estimarVars>>

\* the 300 ms delay between two downloads is over
DelayExpires ==
    /\ batchPc = "delay"
    /\ batchIndex' = batchIndex + 1
    /\ batchPc' = "item"
    /\ UNCHANGED <<batchKind, batchItems, batchFiles, batchDelays, batchDocs,
                   batchNames, batchNotices>>
    /\ UNCHANGED <<pagingVars, surfaceVars, calcVars, estimarVars>>

InitBatch == PagingIdle /\ SurfaceIdle /\ BatchIdle /\ CalcIdle /\ EstimarIdle

NextBatch ==
    \/ \E kind \in BatchKinds, items \in BatchLists : StartBatch(kind, items)
    \/ ProcessItem
    \/ DelayExpires

SpecBatch == InitBatch /\ [][NextBatch]_vars

\* ------------------------------------------------- on-screen page counter
\* App.calcularPaginasComunicado, run 100 ms after showComunicadoDetalle
\* opened the modal and by every window resize listener it registered.

wrapperWidthMM == 210
marginMM == 20
usableHeightMM == pageHeight - marginMM

\* scrollHeight values of the wrapper
CalcHeights == {0, 250, 251, 1055, 1056}

\* measures the wrapper can report: hidden (all 0); laid out with width w;
\* zero offsetWidth with overflowing content
WrapperMeasures ==
    {[offsetWidth |-> 0, scrollWidth |-> 0, scrollHeight |-> 0]}
    \cup {[offsetWidth |-> w, scrollWidth |-> w, scrollHeight |-> h] :
             w \in Widths \cup {DefaultWidth}, h \in CalcHeights}
    \cup {[offsetWidth |-> 0, scrollWidth |-> w, scrollHeight |-> h] :
             w \in Widths, h \in CalcHeights \ {0}}

WrapperWidthNoFallback(offsetWidth, scrollWidth) == offsetWidth

\* wrapper.offsetWidth || wrapper.scrollWidth || 800
WrapperWidth(offsetWidth, scrollWidth) ==
    IF offsetWidth # 0 THEN offsetWidth
    ELSE IF scrollWidth # 0 THEN scrollWidth
    ELSE DefaultWidth

\* Math.max(1, Math.ceil((contentHeight * (210 / wrapperWidth)) / usableHeightMM))
CalcTotalPages(contentHeight, wrapperWidth) ==
    Max1(CeilDiv(contentHeight * wrapperWidthMM, wrapperWidth * usableHeightMM))

\* the layout of the wrapper changes: resize, new content, modal hidden
Reflow(m) ==
    /\ m # wrapper
    /\ wrapper' = m
    /\ UNCHANGED <<calcCall, paginaActual>>
    /\ UNCHANGED <<pagingVars, surfaceVars, batchVars, estimarVars>>

\* calcularPaginasComunicado(): lines 723-760
CalcularPaginas ==
    /\ LET wrapperWidth == WrapperWidth(wrapper.offsetWidth, wrapper.scrollWidth)
           contentHeight == wrapper.scrollHeight
           total == CalcTotalPages(contentHeight, wrapperWidth)
       IN  /\ calcCall' = [measured |-> <<wrapper.offsetWidth, wrapper.scrollWidth>>,
                           width |-> wrapperWidth,
                           height |-> contentHeight,
                           pages |-> total]
           /\ paginaActual' = total
    /\ UNCHANGED wrapper
    /\ UNCHANGED <<pagingVars, surfaceVars, batchVars, estimarVars>>

InitCalc ==
    /\ PagingIdle /\ SurfaceIdle /\ BatchIdle /\ EstimarIdle
    /\ wrapper \in WrapperMeasures
    /\ calcCall = NoCalc
    /\ paginaActual = Fin(1)

NextCalc ==
    \/ \E m \in WrapperMeasures : Reflow(m)
    \/ CalcularPaginas

SpecCalc == InitCalc /\ [][NextCalc]_vars

\* ------------------------------------------------- page estimate of the form
\* FormsManager.estimarPaginasComunicado, run by every input event of
\* #comunicado-contenido; handleComunicadoSubmit; App.formatComunicadoContent.
\* A text is a sequence of tokens: a space, a line feed, words whose letters
\* decide what the regular expressions of formatComunicadoContent match, and
\* "parrafo", a run of LongRun lower-case characters.

Tokens == {"sp", "nl", "ARTICULO", "AVISO", "ANTIGÜEDAD", "texto", "parrafo"}

\* what \s matches
Whitespace == {"sp", "nl"}

\* the words every letter of which is in [A-ZÁÉÍÓÚÑ]
RegexUpperWords == {"ARTICULO", "AVISO"}

\* the words made of upper-case letters only
UpperCaseWords == {"ARTICULO", "AVISO", "ANTIGÜEDAD"}

\* number of characters of a token
Chars(t) ==
    CASE t \in Whitespace -> 1
      [] t = "ARTICULO" -> 8
      [] t = "AVISO" -> 5
      [] t = "ANTIGÜEDAD" -> 10
      [] t = "texto" -> 5
      [] OTHER -> LongRun

RECURSIVE TextLength(_)
\* String.prototype.length
TextLength(s) == IF s = <<>> THEN 0 ELSE Chars(Head(s)) + TextLength(Tail(s))

RECURSIVE TrimStart(_)
TrimStart(s) ==
    IF s # <<>> /\ Head(s) \in Whitespace THEN TrimStart(Tail(s)) ELSE s

RECURSIVE TrimEnd(_)
TrimEnd(s) ==
    IF s # <<>> /\ s[Len(s)] \in Whitespace
    THEN TrimEnd(SubSeq(s, 1, Len(s) - 1))
    ELSE s

\* String.prototype.trim
Trim(s) == TrimEnd(TrimStart(s))

RECURSIVE Split(_)
\* s.split('\n')
Split(s) ==
    IF s = <<>> THEN << <<>> >>
    ELSE LET rest == Split(Tail(s))
         IN  IF Head(s) = "nl" THEN << <<>> >> \o rest
             ELSE << <<Head(s)>> \o rest[1] >> \o Tail(rest)

NonBlank(p) == Trim(p) # <<>>

\* content.split('\n').filter(p => p.trim())
Paragraphs(content) == SelectSeq(Split(content), NonBlank)

\* ^[A-ZÁÉÍÓÚÑ\s]+$  or  ^ARTICULO|^ARTÍCULO  on a trimmed, non-empty line
MatchesTitle(trimmed) ==
    \/ \A i \in 1..Len(trimmed) : trimmed[i] \in RegexUpperWords \cup Whitespace
    \/ trimmed[1] = "ARTICULO"

\* formatComunicadoContent(content): the <p> elements of the body
FormatComunicadoContent(content) ==
    IF content = <<>> THEN <<>>
    ELSE LET paragraphs == Paragraphs(content)
         IN  [i \in 1..Len(paragraphs) |->
                LET trimmed == Trim(paragraphs[i])
                IN  [class |-> IF MatchesTitle(trimmed)
                               THEN "comunicado-paragraph-title"
                               ELSE "comunicado-paragraph",
                     text |-> trimmed]]

\* the <p> elements estimarPaginasComunicado appends to tempDiv
EstimarParagraphs(contenido) ==
    LET paragraphs == Paragraphs(contenido)
    IN  [i \in 1..Len(paragraphs) |-> Trim(paragraphs[i])]

\* layout of the measured text, lengths in tenths of a CSS px: a content box
\* of 800 px less 2rem of padding on each side holds CharsPerLine characters
\* of 16 px Arial; a line is 16 * 1.8 px high, a paragraph is followed by
\* 1.25rem, the box has 2rem of padding above and below
estimarWrapperWidth == 800
CharsPerLine == 92
lineHeight == 288
marginBottom == 200
padding == 640

TextLines(p) == (TextLength(p) + CharsPerLine - 1) \div CharsPerLine

RECURSIVE ParagraphsHeight(_)
ParagraphsHeight(ps) ==
    IF ps = <<>> THEN 0
    ELSE TextLines(Head(ps)) * lineHeight + marginBottom + ParagraphsHeight(Tail(ps))

\* tempDiv.scrollHeight, an integer number of px
ScrollHeight(ps) == (padding + ParagraphsHeight(ps) + 5) \div 10

\* scrollHeight of the body the export rasterizes: the same paragraphs
\* without the padding of the measuring box
BodyScrollHeight(ps) == (ParagraphsHeight(ps) + 5) \div 10

estimarHeaderHeightMM == 80
estimarFooterHeightMM == 30
estimarUsableHeightMM ==
    pageHeight - estimarHeaderHeightMM - estimarFooterHeightMM - marginMM

EstimarTotalPagesFloor(contentHeight) ==
    Fin((contentHeight * wrapperWidthMM) \div (estimarWrapperWidth * estimarUsableHeightMM))

\* Math.max(1, Math.ceil((contentHeight * (210 / 800)) / usableHeightMM))
EstimarTotalPages(contentHeight) ==
    Max1(CeilDiv(contentHeight * wrapperWidthMM,
                 estimarWrapperWidth * estimarUsableHeightMM))

\* estimarPaginasComunicado() on the value the textarea has after the edit
EstimarPaginasComunicado(value) ==
    LET contenido == Trim(value)
    IN  IF contenido = <<>>
        THEN /\ paginasEstimadas' = "none"
             /\ UNCHANGED <<numPaginas, tempDiv>>
        ELSE LET paragraphs == EstimarParagraphs(contenido)
             IN  /\ tempDiv' = paragraphs
                 /\ numPaginas' = EstimarTotalPages(ScrollHeight(paragraphs))
                 /\ paginasEstimadas' = "inline"

\* the user types t at the end of the text: input event
TypeToken(t) ==
    /\ formOpen
    /\ Len(textarea) < MaxTokens
    /\ textarea' = Append(textarea, t)
    /\ EstimarPaginasComunicado(textarea')
    /\ UNCHANGED <<formOpen, created, documentoBody, exportedPages>>
    /\ UNCHANGED <<pagingVars, surfaceVars, batchVars, calcVars>>

\* the user deletes the end of the text: input event
DeleteToken ==
    /\ formOpen
    /\ textarea # <<>>
    /\ textarea' = SubSeq(textarea, 1, Len(textarea) - 1)
    /\ EstimarPaginasComunicado(textarea')
    /\ UNCHANGED <<formOpen, created, documentoBody, exportedPages>>
    /\ UNCHANGED <<pagingVars, surfaceVars, batchVars, calcVars>>

\* handleComunicadoSubmit with a valid form (the content is required): the
\* record is stored with the trimmed content, the modal is closed and the
\* form reset, which fires no input event
HandleComunicadoSubmit ==
    /\ formOpen
    /\ Trim(textarea) # <<>>
    /\ created' = [contenido |-> Trim(textarea)]
    /\ formOpen' = FALSE
    /\ textarea' = <<>>
    /\ UNCHANGED <<paginasEstimadas, numPaginas, tempDiv, documentoBody, exportedPages>>
    /\ UNCHANGED <<pagingVars, surfaceVars, batchVars, calcVars>>

\* showComunicadoDetalle of the created record: the body is
\* formatComunicadoContent(comunicado.contenido)
ShowCreated ==
    /\ created # <<>>
    /\ documentoBody = <<>>
    /\ documentoBody' = FormatComunicadoContent(created.contenido)
    /\ UNCHANGED <<textarea, formOpen, paginasEstimadas, numPaginas, tempDiv, created,
                   exportedPages>>
    /\ UNCHANGED <<pagingVars, surfaceVars, batchVars, calcVars>>

\* header and footer heights (mm) the export can measure
MeasuredReserves ==
    {[header |-> estimarHeaderHeightMM, footer |-> estimarFooterHeightMM],
     [header |-> 60, footer |-> 20]}

\* templates.js lines 598-649 for the rendered record, the wrapper 800 px
\* wide: bodyHeightMM = scrollHeight * usableWidth / 800, then totalPages
ExportCreated(r) ==
    /\ documentoBody # <<>>
    /\ exportedPages = Undefined
    /\ LET texts == [i \in 1..Len(documentoBody) |-> documentoBody[i].text]
       IN  exportedPages' =
               TotalPages(BodyScrollHeight(texts) * usableWidth,
                          estimarWrapperWidth
                              * ContentHeightPerPage(r.header, r.footer))
    /\ UNCHANGED <<textarea, formOpen, paginasEstimadas, numPaginas, tempDiv, created,
                   documentoBody>>
    /\ UNCHANGED <<pagingVars, surfaceVars, batchVars, calcVars>>

InitEstimar ==
    /\ PagingIdle /\ SurfaceIdle /\ BatchIdle /\ CalcIdle
    /\ textarea = <<>>
    /\ formOpen = TRUE
    /\ paginasEstimadas = "none"
    /\ numPaginas = Undefined
    /\ tempDiv = <<>>
    /\ created = <<>>
    /\ documentoBody = <<>>
    /\ exportedPages = Undefined

NextEstimar ==
    \/ \E t \in Tokens : TypeToken(t)
    \/ DeleteToken
    \/ HandleComunicadoSubmit
    \/ ShowCreated
    \/ \E r \in MeasuredReserves : ExportCreated(r)

SpecEstimar == InitEstimar /\ [][NextEstimar]_vars

\* ------------------------------------------------------------------ claims

\* the page geometry and totalPages have been computed (line 649 was run)
Planned == pageNum >= 1

\* C1: for body height h >= 0 and contentHeightPerPage C > 0, totalPages is
\* max(1, ceil(h / C)), i.e. the least n >= 1 with n * C >= h; it does not
\* decrease when h grows, and h = k * C gives k pages, not k + 1.
C1_TotalPagesIsCeil ==
    (Planned /\ contentHeightPerPage > 0) =>
        /\ totalPages.t = "fin"
        /\ totalPages.v >= 1
        /\ totalPages.v * contentHeightPerPage >= bodyHeightMM
        /\ totalPages.v > 1 =>
              (totalPages.v - 1) * contentHeightPerPage < bodyHeightMM
        /\ \A h \in 0..bodyHeightMM :
              TotalPages(h, contentHeightPerPage).v <= totalPages.v
        /\ \A k \in 1..MaxPages :
              bodyHeightMM = k * contentHeightPerPage => totalPages = Fin(k)

C1_Witness ==
    /\ pc = "done"
    /\ contentHeightPerPage > 0
    /\ bodyHeightMM = 3 * contentHeightPerPage
    /\ totalPages = Fin(3)
    /\ Len(savedFiles[1].pages) = 3

\* C2: in every plan of the page loop the slices are contiguous: the first
\* starts at 0, each ends where the next starts, the last ends at the body
\* height.
C2_SlicesContiguous ==
    (pc = "done" /\ plan # <<>>) =>
        /\ plan[1][1] = 0
        /\ \A i \in 1..(Len(plan) - 1) : plan[i][2] = plan[i + 1][1]
        /\ plan[Len(plan)][2] = bodyHeightMM

\* C3: in every saved export exactly one page, the last one, has the footer.
C3_FooterOnLastPageOnly ==
    pc = "done" =>
        LET pages == savedFiles[1].pages
        IN  /\ Len(pages) >= 1
            /\ \A p \in 1..Len(pages) : pages[p].footer <=> (p = Len(pages))

\* C4: every page p of a saved export carries the header with the counter
\* "p de totalPages"; page 1 always does.
C4_HeaderOnEveryPage ==
    pc = "done" =>
        LET pages == savedFiles[1].pages
        IN  /\ Len(pages) >= 1
            /\ \A p \in 1..Len(pages) : pages[p].header = <<p, totalPages>>

\* C5: when contentHeightPerPage <= 0 the export is rejected: no page is
\* composed, no slice of zero or negative height is emitted and no file is
\* saved.
C5_InvalidGeometryRejected ==
    (Planned /\ contentHeightPerPage <= 0) =>
        /\ plan = <<>>
        /\ savedFiles = <<>>
        /\ pc # "done"

\* C6: when the body height is 0 the saved export has exactly one page, with
\* the header, no body slice and the footer.
C6_EmptyBodyOnePage ==
    (pc = "done" /\ bodyHeightMM = 0) =>
        LET pages == savedFiles[1].pages
        IN  /\ Len(pages) = 1
            /\ pages[1].header = <<1, Fin(1)>>
            /\ pages[1].body = <<>>
            /\ pages[1].footer

\* C7: the file is saved at most once, only when every page p with
\* p <= totalPages has been composed, and never after a failure.
C7_NoPartialOutput ==
    /\ Len(savedFiles) <= 1
    /\ savedFiles # <<>> =>
          /\ pc = "done"
          /\ ~JSLeq(pageNum, totalPages)
          /\ savedFiles[1].pages = pdf
          /\ \A p \in 1..(MaxPages + 1) :
                JSLeq(p, totalPages) =>
                   /\ p <= Len(pdf)
                   /\ pdf[p].header = <<p, totalPages>>
    /\ (pc = "failed" \/ error # NoError) => savedFiles = <<>>

C7_Witness ==
    /\ pc = "done"
    /\ Len(savedFiles) = 1
    /\ totalPages = Fin(3)
    /\ Len(savedFiles[1].pages) = 3

\* an export call that has acted on the surface and has not completed
OnSurface(c) ==
    /\ calls[c].kind = "export"
    /\ calls[c].pc \in {"wait500", "wait800", "wait300", "raster"}

\* C8: two exports are never interleaved: while one export is between its
\* first step on the rendering surface and its completion, no other export
\* is.
C8_ExportsNeverInterleaved ==
    \A c, d \in CallIds : (c # d) => ~(OnSurface(c) /\ OnSurface(d))

\* C9: the content rasterized into the file named after record R is the
\* rendering of R.
C9_FileShowsItsRecord ==
    \A i \in 1..Len(downloads) :
        downloads[i].name = FileName(downloads[i].content)

\* C10: when the batch ends, every item that did not fail has its file and
\* every failed item has been reported with its code.
C10_BatchContinuesAfterFailure ==
    batchPc \in {"done", "failed"} =>
        \A i \in 1..Len(batchItems) :
            IF batchItems[i].ok
            THEN \E j \in 1..Len(batchFiles) : batchFiles[j] = batchItems[i].codigo
            ELSE \E j \in 1..Len(batchNotices) :
                    batchNotices[j] = <<"failed", batchItems[i].codigo>>

\* the codes of the first n records of the batch, in input order
CodesOfFirst(n) == [i \in 1..n |-> batchItems[i].codigo]

C12_OneDelayBetweenSaves ==
    /\ batchPc \in {"item", "failed"} => batchDelays = Len(batchFiles)
    /\ batchPc = "delay" =>
          /\ batchDelays = Len(batchFiles)
          /\ batchIndex < Len(batchItems) - 1
    /\ batchPc = "done" => batchDelays = Len(batchFiles) - 1

C12_Witness ==
    /\ batchPc = "done"
    /\ Len(batchFiles) = 3
    /\ batchDelays = 2

\* C13: every document saved by exportComunicadosPDF has the structure the
\* single-document pipeline gives: the header with the counter "p de n" on
\* every page p of its n pages, the footer on the last page only.
C13_BatchUsesSinglePipeline ==
    batchKind = "comunicados" =>
        \A d \in 1..Len(batchDocs) :
            LET pages == batchDocs[d]
            IN  \A p \in 1..Len(pages) :
                   /\ pages[p].header
                   /\ pages[p].counter = <<p, Len(pages)>>
                   /\ pages[p].footer <=> (p = Len(pages))

\* C14: the wait for the embedded images always ends: an export that is
\* waiting for its images eventually goes on to rasterization.
C14_ImageWaitEnds == (pc = "images") ~> (pc # "images")

\* C15: when the header logo is broken, whether it broke before the export
\* started or while the export was waiting for it, every page header of the
\* completed export shows the placeholder glyph in its place.
C15_PlaceholderForBrokenLogo ==
    (pc = "done" /\ img = "broken") => headerLogos \subseteq {"placeholder"}

\* C16: the error thrown by a failed export identifies the document by its
\* code and names the stage that failed.
C16_FailureIsLabeled ==
    pc = "failed" =>
        /\ "codigo" \in DOMAIN error
        /\ "stage" \in DOMAIN error
        /\ error.codigo = comunicado

\* C17: a region measured with zero width is not rasterized as such: after
\* the retry the container gets the default width, and the export does not
\* fail because of it.
C17_ZeroSizeUsesDefaultWidth ==
    attached > 0 => containerWidth \in (Widths \cup {DefaultWidth})

\* C18: calcularPaginasComunicado never divides by zero: the width it divides
\* by is positive, and is 800 when the wrapper reports width 0; the scale
\* factor 210 / width is positive and finite; the page count it returns and
\* shows is an integer >= 1, the least n >= 1 whose n pages hold the content.
C18_CalcNeverDividesByZero ==
    calcCall # NoCalc =>
        /\ calcCall.width > 0
        /\ calcCall.measured = <<0, 0>> => calcCall.width = DefaultWidth
        /\ calcCall.pages.t = "fin"
        /\ calcCall.pages.v >= 1
        /\ calcCall.pages.v * usableHeightMM * calcCall.width
              >= calcCall.height * wrapperWidthMM
        /\ calcCall.pages.v > 1 =>
              (calcCall.pages.v - 1) * usableHeightMM * calcCall.width
                 < calcCall.height * wrapperWidthMM
        /\ paginaActual = calcCall.pages

C18_Witness ==
    /\ calcCall.measured = <<0, 0>>
    /\ calcCall.width = DefaultWidth
    /\ calcCall.pages = Fin(1)

\* C19: one px -> mm scale factor, usableWidth / width, serves the header, the
\* body, the footer and every per-page header raster of an export.
C19_SingleScaleFactor == Cardinality(scaleWidths) <= 1

\* C20: when exportComunicadoPDF has returned, by success or by failure, no
\* off-screen container is attached and the loading indicator is hidden.
C20_ResourcesReleased ==
    pc \in {"done", "failed"} => (attached = 0 /\ ~loadingVisible)

\* C24: whenever contentHeightPerPage > 0 the stack of every composed page,
\* margin + header + 5 mm + body slice (+ 5 mm + footer on the last page),
\* ends at or above pageHeight - margin: the footer fits on its page.
C24_StackInsideUsableArea ==
    (Planned /\ contentHeightPerPage > 0) =>
        \A p \in 1..Len(pdf) : pdf[p].bottom <= pageHeight - margin

C24_Witness ==
    /\ pc = "done"
    /\ contentHeightPerPage > 0
    /\ Len(pdf) = 2
    /\ pdf[2].footer
    /\ pdf[2].bottom = pageHeight - margin

\* C26: in a saved export of M pages the counter of page p reads "p de M",
\* for p = 1, 2, ..., M.
C26_CounterTotalIsPageCount ==
    pc = "done" =>
        LET pages == savedFiles[1].pages
        IN  \A p \in 1..Len(pages) :
               /\ Len(pages[p].header) = 2
               /\ pages[p].header[1] = p
               /\ pages[p].header[2] = Fin(Len(pages))

\* C27: when the body height is > 0 and contentHeightPerPage C > 0 every
\* composed page has a body slice: exactly C on every page but the last, and
\* more than 0 and at most C on the last.
C27_NoEmptySlice ==
    (Planned /\ bodyHeightMM > 0 /\ contentHeightPerPage > 0) =>
        \A i \in 1..Len(plan) :
            LET slice == plan[i][2] - plan[i][1]
            IN  /\ pdf[i].body = <<plan[i][1], plan[i][2]>>
                /\ IF JSEq(i, totalPages)
                   THEN slice > 0 /\ slice <= contentHeightPerPage
                   ELSE slice = contentHeightPerPage

C27_Witness ==
    /\ pc = "done"
    /\ Len(plan) = 3
    /\ plan[3][2] - plan[3][1] > 0
    /\ plan[3][2] - plan[3][1] < contentHeightPerPage

\* C28: for every measured geometry the bound of the page loop is one that
\* pageNum++ exceeds after finitely many pages, so the loop ends.
C28_PageLoopTerminates ==
    Planned => totalPages # Infinity

C21_SecondExportSameLayout ==
    \A i, j \in 1..Len(downloads) :
        (downloads[i].name = downloads[j].name
            /\ downloads[i].content = downloads[j].content) =>
        (downloads[i].wrapperShown = downloads[j].wrapperShown)

\* an export call between line 543 (indicator shown) and its finally block
ShowingIndicator(c) == calls[c].kind = "export" /\ calls[c].pc = "raster"

\* C29: the loading indicator is visible whenever at least one export call
\* is between showing it and its finally block, and hidden when none is in
\* progress.
C29_IndicatorTracksCalls ==
    /\ (\E c \in CallIds : ShowingIndicator(c)) => loadingPdf = "flex"
    /\ NoCallInFlight => loadingPdf = "none"

C23_EstimateWithinOnePage ==
    exportedPages # Undefined =>
        /\ exportedPages.t = "fin"
        /\ numPaginas.v - exportedPages.v \in {-1, 0, 1}

\* C30: the formatter and the estimator make the same paragraphs of a text,
\* and the formatter marks a paragraph as title exactly when it consists of
\* upper-case letters and spaces or starts with ARTICULO.
C30_SameParagraphsAndTitles ==
    documentoBody # <<>> =>
        /\ [i \in 1..Len(documentoBody) |-> documentoBody[i].text] = tempDiv
        /\ \A i \in 1..Len(documentoBody) :
              (documentoBody[i].class = "comunicado-paragraph-title")
                  <=> LET text == documentoBody[i].text
                      IN  \/ \A k \in 1..Len(text) :
                                 text[k] \in UpperCaseWords \cup Whitespace
                          \/ text[1] = "ARTICULO"

====
